---- MODULE Spec2Model ----
(***************************************************************************)
(* Model of CivitAIDownloader (src/download_with_aria.py): one run of      *)
(* download_with_aria2 against an output directory, with the header probe, *)
(* the external transfer tool (aria2c) and the archive contents as the     *)
(* environment.                                                            *)
(*                                                                         *)
(* A file name is a record [base, tags, ext, ctl]:                         *)
(*   base  the leading part of the stem                                    *)
(*   tags  the suffixes the program appends to a stem, in order:           *)
(*         0 is "_diffusers", n >= 1 is the counter suffix "_n"            *)
(*   ext   the extension without the dot, letter case kept                 *)
(*   ctl   TRUE for the aria2 control file of the name (name + ".aria2")   *)
(* so "m_1.safetensors" is [base "m", tags <<1>>, ext "safetensors"].      *)
(***************************************************************************)
EXTENDS Integers, Sequences, FiniteSets, TLC

\* ---------------------------------------------------------------- bounds
\* number of fixtures combined in the output directory before the run
MaxPre == 1
\* number of times the processor goes from one invocation to the other
MaxSwitch == 2

\* ------------------------------------------------------------- constants
MIN_FILE_MB == 1
\* bytes per MB, the divisor of validate_file
MB == 1048576
SAFETENSORS_EXT == "safetensors"
ZIP_EXT == "zip"

\* ------------------------------------------------------------ file names
N(base, tags, ext) == [base |-> base, tags |-> tags, ext |-> ext, ctl |-> FALSE]

\* Python's None and the empty string: both are falsy in `a or b`
None == N("", <<>>, "")

\* str.lower() on the extensions of the model
Lower(ext) ==
  CASE ext = "SAFETENSORS" -> "safetensors"
    [] ext = "SafeTensors" -> "safetensors"
    [] ext = "ZIP" -> "zip"
    [] OTHER -> ext

\* Path.suffix: the control file's suffix is ".aria2"
Suffix(p) == IF p.ctl THEN "aria2" ELSE p.ext

\* file_path.with_suffix(file_path.suffix + ARIA2_EXT)
Aria2File(p) == [p EXCEPT !.ctl = TRUE]

\* whether the control file of p exists in directory F (the control file of
\* a control file, "x.aria2.aria2", is never created)
HasAria2(F, p) == ~p.ctl /\ Aria2File(p) \in DOMAIN F

\* Path.stem of a data file, as the key of its scratch directory
Stem(p) == [base |-> p.base, tags |-> p.tags]

\* f"{Path(name).stem}_diffusers.zip"
DiffusersName(p) == N(p.base, Append(p.tags, 0), "zip")

\* --------------------------------------------------- finite-map helpers
Put(f, k, v) == [x \in (DOMAIN f) \cup {k} |-> IF x = k THEN v ELSE f[x]]
Del(f, k) == [x \in (DOMAIN f) \ {k} |-> f[x]]
Empty == [x \in {} |-> 0]

\* ------------------------------------------------------------- archives
\* the content of a file as zipfile.ZipFile sees it: readable is FALSE for a
\* file that is no archive (BadZipFile on open); an entry with ok = FALSE
\* raises BadZipFile when it is extracted (bad CRC)
Entry(dir, name, ok, size) == [dir |-> dir, name |-> name, ok |-> ok, size |-> size]
NoZip == [readable |-> FALSE, entries |-> <<>>]
Zip(entries) == [readable |-> TRUE, entries |-> entries]

File(size, mtime, content, pre) ==
  [size |-> size, mtime |-> mtime, content |-> content, pre |-> pre]

\* ------------------------------------------------------- file utilities
\* round(num / den) to the nearest integer, ties to even: what Python's
\* "%.2f" and "%.1f" do with the exactly representable size / 2^20
RoundHalfEven(num, den) ==
  LET q == num \div den
      r == num % den
  IN  IF 2 * r < den THEN q
      ELSE IF 2 * r > den THEN q + 1
      ELSE IF q % 2 = 0 THEN q ELSE q + 1

\* f"{file_size_mb:.2f}" as hundredths of a MB, f"{file_size_mb:.1f}" as tenths
Fmt2(size) == RoundHalfEven(size * 100, MB)
Fmt1(size) == RoundHalfEven(size * 10, MB)

\* validate_file with the marker check left out
validate_file_nomarker(F, p) ==
  IF p \notin DOMAIN F
    THEN [valid |-> FALSE, reason |-> "File does not exist", mb |-> -1]
  ELSE IF F[p].size < MIN_FILE_MB * MB
    THEN [valid |-> FALSE, reason |-> "File suspiciously small", mb |-> Fmt2(F[p].size)]
  ELSE [valid |-> TRUE, reason |-> "File valid", mb |-> Fmt1(F[p].size)]

validate_file(F, p) ==
  IF p \notin DOMAIN F
    THEN [valid |-> FALSE, reason |-> "File does not exist", mb |-> -1]
  ELSE IF HasAria2(F, p)
    THEN [valid |-> FALSE, reason |-> "Incomplete download detected", mb |-> -1]
  ELSE IF F[p].size < MIN_FILE_MB * MB
    THEN [valid |-> FALSE, reason |-> "File suspiciously small", mb |-> Fmt2(F[p].size)]
  ELSE [valid |-> TRUE, reason |-> "File valid", mb |-> Fmt1(F[p].size)]

\* the directory after cleanup_incomplete_download(p): the file and its
\* control file are unlinked when they exist
cleanup_incomplete_download(F, p) == Del(Del(F, p), Aria2File(p))

RECURSIVE UniqueFrom(_, _, _)
UniqueFrom(F, p, counter) ==
  LET new_path == [p EXCEPT !.tags = Append(@, counter)]
  IN  IF new_path \notin DOMAIN F THEN new_path ELSE UniqueFrom(F, p, counter + 1)

_get_unique_filename(F, p) ==
  IF p \notin DOMAIN F THEN p ELSE UniqueFrom(F, p, 1)

\* ------------------------------------------------- archive post-processing
\* [n for n in zip_ref.namelist() if n.lower().endswith(SAFETENSORS_EXT)]
safetensors_in_zip(c) ==
  SelectSeq(c.entries, LAMBDA e: Lower(e.name.ext) = SAFETENSORS_EXT)

Key(e) == [dir |-> e.dir, name |-> e.name]

\* index of the first entry whose extraction raises BadZipFile, 0 when none
RECURSIVE FirstBad(_, _)
FirstBad(es, i) ==
  IF i > Len(es) THEN 0 ELSE IF ~es[i].ok THEN i ELSE FirstBad(es, i + 1)

\* the scratch directory T after zip_ref.extract of entries 1..k
RECURSIVE ExtractInto(_, _, _)
ExtractInto(T, es, k) ==
  IF k = 0 THEN T ELSE Put(ExtractInto(T, es, k - 1), Key(es[k]), es[k].size)

\* temp_dir.rglob("*.safetensors"): pathlib matches the pattern literally
\* (case-sensitively) on POSIX
Globbed(T) == {k \in DOMAIN T : k.name.ext = SAFETENSORS_EXT}

\* the orders in which rglob may yield the files
Orders(S) ==
  {o \in [1..Cardinality(S) -> S] : \A i, j \in 1..Cardinality(S) : o[i] = o[j] => i = j}

\* the move loop with last_moved set by the first move only
RECURSIVE MoveAll_first_only(_, _, _, _, _)
MoveAll_first_only(F, T, order, n, now) ==
  IF n = 0 THEN [fs |-> F, last |-> None]
  ELSE LET prev == MoveAll_first_only(F, T, order, n - 1, now)
           dest_file == _get_unique_filename(prev.fs, order[n].name)
       IN  [fs |-> Put(prev.fs, dest_file, File(T[order[n]], now, NoZip, FALSE)),
            last |-> IF n = 1 THEN None ELSE dest_file]

\* the move loop over order[1..n]: each file goes to a free name
RECURSIVE MoveAll(_, _, _, _, _)
MoveAll(F, T, order, n, now) ==
  IF n = 0 THEN [fs |-> F, last |-> None]
  ELSE LET prev == MoveAll(F, T, order, n - 1, now)
           dest_file == _get_unique_filename(prev.fs, order[n].name)
       IN  [fs |-> Put(prev.fs, dest_file, File(T[order[n]], now, NoZip, FALSE)),
            last |-> dest_file]

ProcResult(ok, msg, last, moved, F, S) ==
  [ok |-> ok, msg |-> msg, last |-> last, moved |-> moved, fs |-> F, scratch |-> S]

\* lines 167-169 with the container unlinked as on the extraction path
NoMatches_unlink(F, S, zip_path) ==
  ProcResult(TRUE, "No safetensors files in archive - keeping original ZIP", None, 0,
             Del(F, zip_path), S)

\* lines 167-169: no matching entry, the archive is kept
NoMatches(F, S, zip_path) ==
  ProcResult(TRUE, "No safetensors files in archive - keeping original ZIP", None, 0, F, S)

\* extract_safetensors_from_zip(zip_path) on directory F with scratch
\* directories S.  order is the order rglob yields; fault is an I/O error the
\* environment raises: "extract" during zip_ref.extract, "move" at
\* shutil.move of the file number faultAt, "none" for no error.
extract_safetensors_from_zip(F, S, zip_path, order, fault, faultAt, now) ==
  LET temp_dir == Stem(zip_path)
      c == F[zip_path].content
      es == safetensors_in_zip(c)
      T0 == IF temp_dir \in DOMAIN S THEN S[temp_dir] ELSE Empty
      bad == FirstBad(es, 1)
      T1 == ExtractInto(T0, es, Len(es))
      n == Cardinality(Globbed(T1))
  IN  IF ~c.readable
        THEN ProcResult(FALSE, "Corrupted or invalid ZIP file", None, 0, F, S)
      ELSE IF es = <<>>
        THEN NoMatches(F, S, zip_path)
      ELSE IF bad > 0
        THEN ProcResult(FALSE, "Corrupted or invalid ZIP file", None, 0, F,
                        Put(S, temp_dir, ExtractInto(T0, es, bad)))
      ELSE IF fault = "extract"
        THEN ProcResult(FALSE, "Extraction error", None, 0, F, Del(S, temp_dir))
      ELSE IF fault = "move" /\ faultAt \in 1..n
        THEN ProcResult(FALSE, "Extraction error", None, faultAt - 1,
                        MoveAll(F, T1, order, faultAt - 1, now).fs, Del(S, temp_dir))
      ELSE LET m == MoveAll(F, T1, order, n, now)
           IN  ProcResult(TRUE, "Extracted safetensors file(s)", m.last, n,
                          Del(m.fs, zip_path), Del(S, temp_dir))

\* process_downloaded_file reporting failure for a file that is already in
\* the payload format
process_downloaded_file_rejecting(F, S, p, order, fault, faultAt, now) ==
  IF p \notin DOMAIN F
    THEN ProcResult(FALSE, "Downloaded file not found", None, 0, F, S)
  ELSE IF Lower(Suffix(p)) = ZIP_EXT
    THEN extract_safetensors_from_zip(F, S, p, order, fault, faultAt, now)
  ELSE IF Lower(Suffix(p)) = SAFETENSORS_EXT
    THEN ProcResult(FALSE, "File ready to use", None, 0, F, S)
  ELSE ProcResult(TRUE, "File downloaded successfully", p, 0, F, S)

\* process_downloaded_file(file_path)
process_downloaded_file(F, S, p, order, fault, faultAt, now) ==
  IF p \notin DOMAIN F
    THEN ProcResult(FALSE, "Downloaded file not found", None, 0, F, S)
  ELSE IF Lower(Suffix(p)) = ZIP_EXT
    THEN extract_safetensors_from_zip(F, S, p, order, fault, faultAt, now)
  ELSE IF Lower(Suffix(p)) = SAFETENSORS_EXT
    THEN ProcResult(TRUE, "File ready to use", p, 0, F, S)
  ELSE ProcResult(TRUE, "File downloaded successfully", p, 0, F, S)

\* the files rglob will yield when zip_path is extracted
WillGlob(F, S, zip_path) ==
  LET temp_dir == Stem(zip_path)
      es == safetensors_in_zip(F[zip_path].content)
      T0 == IF temp_dir \in DOMAIN S THEN S[temp_dir] ELSE Empty
  IN  IF F[zip_path].content.readable /\ es # <<>> /\ FirstBad(es, 1) = 0
        THEN Globbed(ExtractInto(T0, es, Len(es)))
        ELSE {}

\* ------------------------------------------------------------ credential
\* strings are sequences of pieces: the characters of the token one by one,
\* and the fixed parts of a URL or a message as one piece each.
\* Token values a caller may pass: plain ones and one with a character that
\* is not URL-safe.  main() stops before download_with_aria2 without a token
Tokens == {<<"a">>, <<"b">>, <<"a", "/">>}

\* urllib's quote_plus on one character: unreserved characters stay, a blank
\* becomes "+", anything else its percent escape
quote_plus(c) ==
  IF c = " " THEN <<"+">>
  ELSE IF c = "/" THEN <<"%", "2", "F">>
  ELSE <<c>>

RECURSIVE Quoted(_)
Quoted(str) ==
  IF str = <<>> THEN <<>> ELSE quote_plus(Head(str)) \o Quoted(Tail(str))

\* urlencode(params) for type, format and, when the token is truthy, token
urlencode(fmt, token) ==
  <<"type=Model", "&", "format=", fmt>>
    \o (IF token # <<>> THEN <<"&", "token=">> \o Quoted(token) ELSE <<>>)

\* the request URL of lines 315 and 338
download_url(fmt, token) ==
  <<"https://civitai.com/api/download/models/", "model_id", "?">> \o urlencode(fmt, token)

\* str.replace(old, new), old not empty
RECURSIVE Replace(_, _, _)
Replace(str, old, new) ==
  IF Len(str) < Len(old) THEN str
  ELSE IF SubSeq(str, 1, Len(old)) = old
    THEN new \o Replace(SubSeq(str, Len(old) + 1, Len(str)), old, new)
  ELSE <<Head(str)>> \o Replace(Tail(str), old, new)

\* the URL shown at line 245: the text "token=" followed by the token as the
\* caller gave it is replaced by "token=***"
debug_url(url, token) ==
  IF token # <<>> THEN Replace(url, <<"token=">> \o token, <<"token=", "***">>) ELSE url

\* the aria2c command line of lines 249-262, which ends with the URL
cmd(name, url) == <<"aria2c", "--dir=", "output_dir", "--out=", name>> \o url

\* str(CalledProcessError): the command and the exit status
CalledProcessError(command) ==
  <<"Command '">> \o command \o <<"' returned non-zero exit status">>

VARIABLES
  prefer_filename,  \* the override name, None when absent
  force,            \* the force argument
  meta,             \* the name the metadata endpoint would report, or None
  fs,               \* output directory: file name -> File
  scratch,          \* scratch directories: stem -> (entry key -> size)
  fs0,              \* the output directory as it was before the run
  scratch0,         \* the scratch directories as they were before the run
  pc,               \* position of the run
  attempt,          \* 1 = SafeTensor attempt, 2 = Diffusers attempt
  header_name,      \* prefer_filename argument of the current _download_with_url
  filename,         \* name resolved by the current _download_with_url
  file_path,        \* pinned destination of the current attempt
  path,             \* file the current attempt reported as downloaded
  att,              \* what each attempt did, indexed by attempt
  events,           \* network requests and transfer launches, in order
  clock,            \* modification-time counter
  result,           \* the returned pair (ok, path)
  other,            \* frame of a second invocation on the directory, suspended
  switches          \* how often the processor went from one invocation to the other

vars == <<prefer_filename, force, meta, fs, scratch, fs0, scratch0, pc, attempt,
          header_name, filename, file_path, path, att, events, clock, result,
          other, switches>>

\* ------------------------------------------------------------ environment
\* override names the caller may pass
OverrideNames == {None, N("m", <<>>, "safetensors"), N("m", <<>>, "zip")}

\* names the metadata endpoint may report for the model
MetaNames == {None, N("meta", <<>>, "safetensors")}

\* what _get_filename_from_headers may return for a URL of the format: None
\* for a network error or a response without a usable Content-Disposition
HeaderNames(fmt) ==
  IF fmt = "SafeTensor"
    THEN {None, N("s", <<>>, "safetensors")}
    ELSE {None, N("d", <<>>, "zip"), N("d", <<>>, "safetensors"), N("m", <<>>, "zip")}

\* archives the server may deliver
Archives ==
  { NoZip,
    Zip(<<Entry("", N("readme", <<>>, "txt"), TRUE, 1024)>>),
    Zip(<<Entry("", N("x", <<>>, "safetensors"), TRUE, 2097152)>>),
    Zip(<<Entry("", N("x", <<>>, "SAFETENSORS"), TRUE, 2097152)>>),
    Zip(<<Entry("", N("x", <<>>, "safetensors"), TRUE, 2097152),
          Entry("a", N("x", <<>>, "safetensors"), TRUE, 2097152)>>),
    Zip(<<Entry("", N("x", <<>>, "safetensors"), TRUE, 2097152),
          Entry("", N("y", <<>>, "safetensors"), FALSE, 2097152)>>) }

\* the bytes behind a name: only a file named .zip is opened as an archive
Contents(p) == IF Lower(Suffix(p)) = ZIP_EXT THEN Archives ELSE {NoZip}

\* what may be in the output directory before the run, as independent
\* fixtures: valid, too small and incomplete files at the names the run will
\* use, a file at a payload name, an unrelated recent archive, and a scratch
\* directory an interrupted run left behind
OneFile(name, file) == [n \in {name} |-> file]
Fixture(F, S) == [fs |-> F, scratch |-> S]
Fixtures ==
  { Fixture(OneFile(N("m", <<>>, "safetensors"), File(3145728, 0, NoZip, TRUE)), Empty),
    Fixture(OneFile(N("m", <<>>, "safetensors"), File(131072, 0, NoZip, TRUE)), Empty),
    Fixture([n \in {N("m", <<>>, "safetensors"), Aria2File(N("m", <<>>, "safetensors"))} |->
               IF n.ctl THEN File(4096, 0, NoZip, TRUE) ELSE File(3145728, 0, NoZip, TRUE)],
            Empty),
    Fixture(OneFile(N("s", <<>>, "safetensors"), File(3145728, 0, NoZip, TRUE)), Empty),
    Fixture(OneFile(N("s", <<>>, "safetensors"), File(131072, 0, NoZip, TRUE)), Empty),
    Fixture(OneFile(N("x", <<>>, "safetensors"), File(3145728, 0, NoZip, TRUE)), Empty),
    Fixture(OneFile(N("m", <<>>, "zip"),
                    File(3145728, 0,
                         Zip(<<Entry("", N("x", <<>>, "safetensors"), TRUE, 2097152)>>), TRUE)),
            Empty),
    Fixture(OneFile(N("other", <<>>, "zip"),
                    File(3145728, 1,
                         Zip(<<Entry("", N("o", <<>>, "safetensors"), TRUE, 2097152)>>), TRUE)),
            Empty),
    Fixture(Empty,
            [d \in {Stem(N("d", <<>>, "zip"))} |->
               [k \in {[dir |-> "", name |-> N("old", <<>>, "safetensors")]} |-> 2097152]]) }

\* the directory and the scratch directories a set of fixtures makes up
DirOf(X) ==
  [n \in UNION {DOMAIN x.fs : x \in X} |-> (CHOOSE x \in X : n \in DOMAIN x.fs).fs[n]]
ScratchOf(X) ==
  [d \in UNION {DOMAIN x.scratch : x \in X} |->
     (CHOOSE x \in X : d \in DOMAIN x.scratch).scratch[d]]

NoAttempt ==
  [arg |-> None, hdr |-> None, probed |-> FALSE, filename |-> None, dest |-> None,
   exit |-> "none", actual |-> None, valid |-> FALSE, reason |-> "",
   proc |-> "none", msg |-> "", last |-> None, moved |-> 0, globbed |-> 0,
   matched |-> 0]

Format(i) == IF i = 1 THEN "SafeTensor" ELSE "Diffusers"

\* the local variables of one invocation of download_with_aria2
Frame ==
  [pc |-> pc, attempt |-> attempt, header_name |-> header_name,
   filename |-> filename, file_path |-> file_path, path |-> path, att |-> att,
   events |-> events, result |-> result]

Init ==
  /\ prefer_filename \in OverrideNames
  /\ force \in BOOLEAN
  /\ meta \in MetaNames
  /\ \E X \in SUBSET Fixtures :
       /\ Cardinality(X) <= MaxPre
       /\ \A x, y \in X : x # y => (DOMAIN x.fs) \cap (DOMAIN y.fs) = {}
       /\ fs = DirOf(X)
       /\ scratch = ScratchOf(X)
  /\ fs0 = fs
  /\ scratch0 = scratch
  /\ pc = "start"
  /\ attempt = 1
  /\ header_name = None
  /\ filename = None
  /\ file_path = None
  /\ path = None
  /\ att = [i \in {1, 2} |-> NoAttempt]
  /\ events = <<>>
  /\ clock = 1
  /\ result = [ok |-> FALSE, path |-> None]
  /\ other = Frame
  /\ switches = 0

\* what no step of a run writes: its arguments, the snapshots, and the frame
\* of the suspended invocation
inputs == <<prefer_filename, force, meta, fs0, scratch0, other, switches>>

\* ------------------------------------------------------------------ run
\* Begin going to the Diffusers attempt without the SafeTensor attempt
Begin_container_first ==
  /\ pc = "start"
  /\ fs' = IF prefer_filename # None
             THEN cleanup_incomplete_download(fs, prefer_filename)
             ELSE fs
  /\ header_name' = prefer_filename
  /\ attempt' = 1
  /\ pc' = "fallback"
  /\ UNCHANGED <<inputs, scratch, filename, file_path, path, att, events, clock, result>>

\* Begin returning at once when a valid file is at the given name, whatever
\* force says
Begin_short_circuit ==
  /\ pc = "start"
  /\ IF prefer_filename # None /\ validate_file(fs, prefer_filename).valid
       THEN /\ pc' = "done"
            /\ result' = [ok |-> TRUE, path |-> prefer_filename]
            /\ fs' = fs
       ELSE /\ pc' = "resolve"
            /\ result' = result
            /\ fs' = IF prefer_filename # None
                       THEN cleanup_incomplete_download(fs, prefer_filename)
                       ELSE fs
  /\ header_name' = prefer_filename
  /\ attempt' = 1
  /\ UNCHANGED <<inputs, scratch, filename, file_path, path, att, events, clock>>

\* download_with_aria2, lines 311-321: the SafeTensor URL is built and,
\* when the caller gave a name, whatever is at that name is cleaned up
Begin ==
  /\ pc = "start"
  /\ fs' = IF prefer_filename # None
             THEN cleanup_incomplete_download(fs, prefer_filename)
             ELSE fs
  /\ header_name' = prefer_filename
  /\ attempt' = 1
  /\ pc' = "resolve"
  /\ UNCHANGED <<inputs, scratch, filename, file_path, path, att, events, clock, result>>

\* ResolveName that never uses the header name
ResolveName_no_header(arg, hdr) ==
  IF arg # None THEN arg
  ELSE N("download", <<>>, "bin")

\* the name _download_with_url settles on: the argument when it is truthy,
\* else the header name, else "download.bin"
ResolveName(arg, hdr) ==
  IF arg # None THEN arg
  ELSE IF hdr # None THEN hdr
  ELSE N("download", <<>>, "bin")

\* _download_with_url, lines 232-239: resolve the file name and pin the
\* destination
Resolve ==
  /\ pc = "resolve"
  /\ \E h \in HeaderNames(Format(attempt)) :
       LET probed == header_name = None
           hdr == IF probed THEN h ELSE None
           name == ResolveName(header_name, hdr)
           dest == _get_unique_filename(fs, name)
       IN  /\ filename' = name
           /\ file_path' = dest
           /\ events' = IF probed
                          THEN Append(events, [kind |-> "probe", fmt |-> Format(attempt)])
                          ELSE events
           /\ att' = [att EXCEPT ![attempt] =
                        [@ EXCEPT !.arg = header_name, !.hdr = hdr, !.probed = probed,
                                  !.filename = name, !.dest = dest]]
  /\ pc' = "transfer"
  /\ UNCHANGED <<inputs, fs, scratch, attempt, header_name, path, clock, result>>

\* what the transfer tool leaves in the directory for --dir/--out = p:
\* exit 0 normally leaves the complete file and no control file; a non-zero
\* exit may leave a partial file with its control file; a missing binary
\* (FileNotFoundError) leaves the directory alone
aria2c(F, p, exit, wrote, size, content, now) ==
  IF exit = "ok" /\ wrote
    THEN Put(Del(F, Aria2File(p)), p, File(size, now, content, FALSE))
  ELSE IF exit = "fail" /\ wrote
    THEN Put(Put(F, p, File(size, now, content, FALSE)),
             Aria2File(p), File(4096, now, NoZip, FALSE))
  ELSE F

\* recent_files, lines 278-280: the most recently modified among the files
\* modified in the last 120 seconds (mtime 0 stands for an older file)
MostRecent(F) ==
  LET recent_files == {f \in DOMAIN F : F[f].mtime >= 1}
  IN  {f \in recent_files : \A g \in recent_files : F[g].mtime <= F[f].mtime}

\* the file taken as the download, lines 275-281, with a fallback that
\* never looks at other files
Located_pinned(F, p) == IF p \in DOMAIN F THEN {p} ELSE {}

\* the files that may be taken as the download, lines 275-281
Located(F, p) == IF p \in DOMAIN F THEN {p} ELSE MostRecent(F)

\* what the transfer tool may do with destination p.  A file below the size
\* threshold is never opened, so its bytes are left abstract, and so are
\* those of a partial file
Outcomes(p) ==
  {[exit |-> "ok", wrote |-> TRUE, size |-> 3145728, content |-> c] : c \in Contents(p)}
    \cup {[exit |-> "ok", wrote |-> TRUE, size |-> 1048575, content |-> NoZip],
          [exit |-> "ok", wrote |-> FALSE, size |-> 0, content |-> NoZip],
          [exit |-> "fail", wrote |-> TRUE, size |-> 1048575, content |-> NoZip],
          [exit |-> "fail", wrote |-> FALSE, size |-> 0, content |-> NoZip],
          [exit |-> "notfound", wrote |-> FALSE, size |-> 0, content |-> NoZip]}

\* Advance letting the failure of the last attempt escape as an exception
\* instead of returning (False, None)
Advance_raise ==
  IF attempt = 1
    THEN /\ pc' = "fallback"
         /\ result' = result
    ELSE /\ pc' = "raised"
         /\ result' = result

\* an attempt that did not succeed: on to the fallback, or the final failure
Advance ==
  IF attempt = 1
    THEN /\ pc' = "fallback"
         /\ result' = result
    ELSE /\ pc' = "done"
         /\ result' = [ok |-> FALSE, path |-> None]

\* _download_with_url, lines 248-303: run the transfer tool, locate the
\* downloaded file and validate it
Transfer ==
  /\ pc = "transfer"
  /\ \E o \in Outcomes(file_path) :
       LET exit == o.exit
           F1 == aria2c(fs, file_path, exit, o.wrote, o.size, o.content, clock + 1)
           found == IF exit = "ok" THEN Located(F1, file_path) ELSE {}
       IN  /\ fs' = F1
           /\ IF found = {}
                THEN /\ att' = [att EXCEPT ![attempt] = [@ EXCEPT !.exit = exit]]
                     /\ path' = None
                     /\ Advance
                ELSE \E actual \in found :
                       LET v == validate_file(F1, actual)
                       IN  /\ att' = [att EXCEPT ![attempt] =
                                        [@ EXCEPT !.exit = exit, !.actual = actual,
                                                  !.valid = v.valid, !.reason = v.reason]]
                           /\ IF v.valid
                                THEN /\ path' = actual
                                     /\ pc' = "process"
                                     /\ result' = result
                                ELSE /\ path' = None
                                     /\ Advance
           /\ events' = Append(events, [kind |-> "launch", fmt |-> Format(attempt)])
  /\ clock' = clock + 1
  /\ UNCHANGED <<inputs, scratch, attempt, header_name, filename, file_path>>

IsZip(p) == Lower(Suffix(p)) = ZIP_EXT

\* len(safetensors_in_zip) when p is handed to extract_safetensors_from_zip
\* and opens as an archive, 0 otherwise
Matched(F, p) ==
  IF p \in DOMAIN F /\ IsZip(p) /\ F[p].content.readable
    THEN Len(safetensors_in_zip(F[p].content))
    ELSE 0

\* download_with_aria2, lines 324-330 and 353-362: post-process the
\* downloaded file and return, or go on
Process ==
  /\ pc = "process"
  /\ LET globbed == IF path \in DOMAIN fs /\ IsZip(path)
                      THEN WillGlob(fs, scratch, path) ELSE {}
     IN  \E order \in Orders(globbed), fault \in {"none", "extract", "move"},
            faultAt \in 1..(IF globbed = {} THEN 1 ELSE Cardinality(globbed)) :
           LET r == process_downloaded_file(fs, scratch, path, order, fault, faultAt,
                                            clock + 1)
           IN  /\ fs' = r.fs
               /\ scratch' = r.scratch
               /\ att' = [att EXCEPT ![attempt] =
                            [@ EXCEPT !.proc = IF r.ok THEN "ok" ELSE "fail",
                                      !.msg = r.msg, !.last = r.last,
                                      !.moved = r.moved,
                                      !.globbed = Cardinality(globbed),
                                      !.matched = Matched(fs, path)]]
               /\ IF r.ok
                    THEN /\ pc' = "done"
                         /\ result' = [ok |-> TRUE,
                                       path |-> IF r.last # None THEN r.last ELSE path]
                    ELSE Advance
  /\ clock' = clock + 1
  /\ UNCHANGED <<inputs, attempt, header_name, filename, file_path, path, events>>

\* the name given to the Diffusers attempt, lines 341-346
FallbackName(h, prefer) ==
  LET h1 == IF h # None /\ Lower(h.ext) # ZIP_EXT THEN DiffusersName(h) ELSE h
  IN  IF h1 = None /\ prefer # None THEN DiffusersName(prefer) ELSE h1

\* download_with_aria2, lines 332-350: probe the Diffusers URL for a name,
\* force a .zip name, clean up whatever is at that name
Fallback ==
  /\ pc = "fallback"
  /\ \E h \in HeaderNames("Diffusers") :
       LET name == FallbackName(h, prefer_filename)
       IN  /\ header_name' = name
           /\ fs' = IF name # None THEN cleanup_incomplete_download(fs, name) ELSE fs
  /\ events' = Append(events, [kind |-> "probe", fmt |-> "Diffusers"])
  /\ attempt' = 2
  /\ pc' = "resolve"
  /\ UNCHANGED <<inputs, scratch, filename, file_path, path, att, clock, result>>

Next == Begin \/ Resolve \/ Transfer \/ Process \/ Fallback

Spec == Init /\ [][Next]_vars

\* the run is one synchronous thread: it keeps taking its next step until
\* download_with_aria2 returns.  No step reads force or the metadata
\* endpoint, so the runs are taken for one value of each
FairInit == Init /\ ~force /\ meta = None
FairSpec == FairInit /\ [][Next]_vars /\ WF_vars(Next)

\* two invocations with the same arguments run as separate processes on one
\* output directory, which is empty when they start.  They share the
\* directory, the scratch directories and the file-system clock and nothing
\* else; no lock is taken, so the processor may leave one invocation for the
\* other between any two steps, as long as the other has not returned
Switch ==
  /\ switches < MaxSwitch
  /\ other.pc # "done"
  /\ other' = Frame
  /\ pc' = other.pc
  /\ attempt' = other.attempt
  /\ header_name' = other.header_name
  /\ filename' = other.filename
  /\ file_path' = other.file_path
  /\ path' = other.path
  /\ att' = other.att
  /\ events' = other.events
  /\ result' = other.result
  /\ switches' = switches + 1
  /\ UNCHANGED <<prefer_filename, force, meta, fs0, scratch0, fs, scratch, clock>>

\* the interleavings are taken with a working tool and a working disk: every
\* launch of aria2c exits 0 and leaves a file that passes validation at the
\* pinned destination, and no extraction or move raises an I/O error.  What
\* the probes return and which archive the server delivers stays open
Calm ==
  \A i \in {1, 2} :
    /\ att[i].exit \in {"none", "ok"}
    /\ att[i].exit = "ok" => att[i].valid /\ att[i].actual = att[i].dest
    /\ att[i].msg # "Extraction error"

ConcInit == Init /\ ~force /\ meta = None /\ fs = Empty /\ scratch = Empty
ConcNext == (Next /\ Calm') \/ Switch
ConcSpec == ConcInit /\ [][ConcNext]_vars

TypeOK ==
  /\ pc \in {"start", "resolve", "transfer", "process", "fallback", "done"}
  /\ attempt \in {1, 2}
  /\ force \in BOOLEAN
  /\ result.ok \in BOOLEAN

\* ================================================================ claims
Launch(fmt) == [kind |-> "launch", fmt |-> fmt]
Probe(fmt) == [kind |-> "probe", fmt |-> fmt]
Happened(e) == \E i \in 1..Len(events) : events[i] = e

\* the primary attempt failed at fetch, at validation or at post-processing
PrimaryFailed ==
  /\ att[1].exit # "none"
  /\ att[1].exit # "ok" \/ ~att[1].valid \/ att[1].proc = "fail"

\* C1: a Diffusers (container) transfer is launched only after a SafeTensor
\* (primary) transfer was launched and the primary attempt failed at fetch,
\* validation or post-processing; it is never the first launch and never
\* follows a primary attempt whose post-processing succeeded.
C1_FallbackOnlyAfterFailedPrimary ==
  \A i \in 1..Len(events) :
    events[i] = Launch("Diffusers") =>
      /\ \E j \in 1..(i - 1) : events[j] = Launch("SafeTensor")
      /\ PrimaryFailed
      /\ att[1].proc # "ok"

\* a run whose primary attempt failed at post-processing and that then
\* launched the container transfer
C1_Witness == Happened(Launch("Diffusers")) /\ att[1].proc = "fail"

\* a valid file is at the overridden name before the run
ValidAtExpected ==
  prefer_filename # None /\ validate_file(fs0, prefer_filename).valid

\* C2 (as claimed): without force, a valid file at the expected path makes
\* the run end in success with that path, with no network request and no
\* transfer launched.
C2_ShortCircuitNoNetwork ==
  (~force /\ ValidAtExpected) =>
    /\ events = <<>>
    /\ pc = "done" => result = [ok |-> TRUE, path |-> prefer_filename]

\* C3 (as claimed): without force, every file that was in the output
\* directory before the run and passed validation is still there, unchanged.
C3_ValidFilesKept ==
  ~force =>
    \A p \in DOMAIN fs0 :
      validate_file(fs0, p).valid => p \in DOMAIN fs /\ fs[p] = fs0[p]

NoFallbackActivity ==
  ~Happened(Probe("Diffusers")) /\ ~Happened(Launch("Diffusers"))

Suffixed(p, k) == [p EXCEPT !.tags = Append(@, k)]

\* dest is name when name is free in F, else name with the first free counter
FirstFree(F, name, dest) ==
  IF name \notin DOMAIN F THEN dest = name
  ELSE \E k \in 1..(Cardinality(DOMAIN F) + 1) :
         /\ dest = Suffixed(name, k)
         /\ dest \notin DOMAIN F
         /\ \A j \in 1..(k - 1) : Suffixed(name, j) \in DOMAIN F

Launches == SelectSeq(events, LAMBDA e : e.kind = "launch")

\* C5: when the primary transfer exits non-zero the run goes on to the
\* container format (the next launch is the Diffusers one); when that
\* transfer succeeds, the file validates and extraction relocates exactly one
\* payload file, the run ends in success and returns the path of that
\* relocated payload file, which exists and is not the container's path.
C5_FallbackReturnsPayload ==
  /\ (att[1].exit = "fail" /\ pc = "done") =>
       Launches = <<Launch("SafeTensor"), Launch("Diffusers")>>
  /\ (att[1].exit = "fail" /\ pc # "done") =>
       /\ Launches \in {<<Launch("SafeTensor")>>,
                        <<Launch("SafeTensor"), Launch("Diffusers")>>}
       /\ pc = "process" => attempt = 2
  /\ (att[1].exit = "fail" /\ att[2].exit = "ok" /\ att[2].valid
        /\ att[2].proc = "ok" /\ att[2].moved = 1) =>
       /\ pc = "done"
       /\ result.ok
       /\ result.path = att[2].last
       /\ result.path # att[2].actual
       /\ result.path \in DOMAIN fs
       /\ ~fs[result.path].pre
       /\ Lower(result.path.ext) = SAFETENSORS_EXT
       /\ att[2].actual \notin DOMAIN fs

\* a run whose primary transfer failed and whose fallback extracted one payload
C5_Witness ==
  /\ pc = "done"
  /\ att[1].exit = "fail"
  /\ att[2].exit = "ok" /\ att[2].valid /\ att[2].proc = "ok" /\ att[2].moved = 1

AttemptFailed(i) ==
  /\ att[i].exit # "none"
  /\ att[i].exit # "ok" \/ ~att[i].valid \/ att[i].proc = "fail"

\* C6 (as claimed): when both attempts fail the run returns failure and the
\* output directory holds nothing the run created: no downloaded or partial
\* file, no control file, no scratch directory.
C6_FailureLeavesNothing ==
  (pc = "done" /\ AttemptFailed(1) /\ AttemptFailed(2)) =>
    /\ ~result.ok
    /\ \A p \in DOMAIN fs : fs[p].pre
    /\ DOMAIN scratch \subseteq DOMAIN scratch0

\* C7: with force set and a valid file at the expected path, the run does not
\* return before it has launched the primary transfer.
C7_ForceRelaunches ==
  (force /\ ValidAtExpected /\ pc = "done") =>
    /\ att[1].exit # "none"
    /\ Len(Launches) >= 1
    /\ Launches[1] = Launch("SafeTensor")

\* a forced run over a valid file that has returned
C7_Witness == force /\ ValidAtExpected /\ pc = "done" /\ att[1].exit # "none"

\* the paths the checks look at: every file present now or before the run,
\* the control-file-free names of control files, and the two destinations
CheckedPaths ==
  (DOMAIN fs) \cup (DOMAIN fs0) \cup {att[1].dest, att[2].dest}
    \cup {[p EXCEPT !.ctl = FALSE] : p \in DOMAIN fs}

\* C8: validate_file reports valid exactly when the path exists, no control
\* file path + ".aria2" exists and the size is at least the 1 MB threshold;
\* the reason is that of the first failing check in the order existence,
\* marker, size, and the too-small reason carries the measured size.
C8_ValidateExactly ==
  \A p \in CheckedPaths :
    LET v == validate_file(fs, p)
        exists == p \in DOMAIN fs
        marker == \E q \in DOMAIN fs : q.ctl /\ ~p.ctl /\ [q EXCEPT !.ctl = FALSE] = p
    IN  /\ v.valid <=> (exists /\ ~marker /\ fs[p].size >= 1048576)
        /\ ~exists => v.reason = "File does not exist"
        /\ (exists /\ marker) => v.reason = "Incomplete download detected"
        /\ (exists /\ ~marker /\ fs[p].size < 1048576) =>
             /\ v.reason = "File suspiciously small"
             /\ v.mb = RoundHalfEven(fs[p].size * 100, 1048576)
        /\ v.valid => v.reason = "File valid"

\* a transfer whose located file was rejected for its control file although
\* it is large enough, and a file rejected for its size
C8_Witness ==
  \E i \in {1, 2} :
    /\ att[i].reason = "Incomplete download detected"
    /\ att[i].actual \in DOMAIN fs
    /\ \E p \in DOMAIN fs : ~p.ctl /\ fs[p].size >= 1048576 /\ HasAria2(fs, p)

\* get_model_info: the first file descriptor's name, None when unavailable
get_model_info(m) == m

\* C9 (as claimed): the name used is the override if set, else the metadata
\* name if available, else the header name if available, else download.bin.
C9_MetadataPrecedence ==
  att[1].filename # None =>
    att[1].filename =
      IF prefer_filename # None THEN prefer_filename
      ELSE IF get_model_info(meta) # None THEN get_model_info(meta)
      ELSE IF att[1].hdr # None THEN att[1].hdr
      ELSE N("download", <<>>, "bin")

\* C9 (amended): the name resolved for a download, before any collision
\* suffix, is the name passed in (for the primary attempt, the override) if
\* set, else the Content-Disposition name of the transfer URL if available,
\* else download.bin; the header is probed only when no name was passed in,
\* and the metadata endpoint is never queried, whatever it would report.
C9_HeaderPrecedence ==
  /\ \A i \in {1, 2} :
       att[i].filename # None =>
         /\ att[i].arg # None => att[i].filename = att[i].arg /\ ~att[i].probed
         /\ (att[i].arg = None /\ att[i].hdr # None) =>
              att[i].filename = att[i].hdr /\ att[i].probed
         /\ (att[i].arg = None /\ att[i].hdr = None) =>
              att[i].filename = N("download", <<>>, "bin") /\ att[i].probed
  /\ att[1].filename # None => att[1].arg = prefer_filename
  /\ \A k \in 1..Len(events) : events[k].kind \in {"probe", "launch"}

\* a primary attempt that took the header name while the metadata endpoint
\* had a name to offer
C9_Witness ==
  /\ prefer_filename = None
  /\ meta # None
  /\ att[1].hdr # None
  /\ att[1].filename = att[1].hdr

\* the archive at p is readable and none of its entries ends with
\* .safetensors in any letter case
NoPayloadArchive(p) ==
  /\ p \in DOMAIN fs
  /\ IsZip(p)
  /\ fs[p].content.readable
  /\ \A k \in 1..Len(fs[p].content.entries) :
       Lower(fs[p].content.entries[k].name.ext) # "safetensors"

\* C10: post-processing a readable container without any .safetensors entry
\* reports success with zero extractions and no new canonical path, and
\* leaves the directory and the scratch directories as they were: the
\* container is still there and the run returns the container's path.
C10_EmptyArchiveUntouched ==
  [][(pc = "process" /\ NoPayloadArchive(path)) =>
       /\ fs' = fs
       /\ scratch' = scratch
       /\ path \in DOMAIN fs'
       /\ att'[attempt].proc = "ok"
       /\ att'[attempt].moved = 0
       /\ att'[attempt].last = None
       /\ result' = [ok |-> TRUE, path |-> path]]_vars

\* a post-processing step that found no payload entry in a readable archive
C10_Witness ==
  \E i \in {1, 2} :
    /\ att[i].proc = "ok"
    /\ att[i].msg = "No safetensors files in archive - keeping original ZIP"
    /\ att[i].actual \in DOMAIN fs

\* attempt i handed a .zip file to extract_safetensors_from_zip and no
\* scratch directory of that archive's stem was there before the run
Extracted(i) ==
  /\ att[i].proc # "none"
  /\ IsZip(att[i].actual)
  /\ Stem(att[i].actual) \notin DOMAIN scratch0

\* C11 (as claimed): when extraction of a container with N >= 1 entries
\* ending with .safetensors in any letter case returns successfully, N files
\* have been relocated, the reported count is N, and the scratch directory
\* and the container are gone.
C11_AllPayloadsRelocated ==
  \A i \in {1, 2} :
    (Extracted(i) /\ att[i].proc = "ok" /\ att[i].matched >= 1) =>
      /\ att[i].moved = att[i].matched
      /\ Stem(att[i].actual) \notin DOMAIN scratch
      /\ att[i].actual \notin DOMAIN fs

\* C12 (as claimed): on every exit path of extract_safetensors_from_zip the
\* scratch directory temp_extract_<stem> does not exist on return.
C12_ScratchRemovedOnEveryExit ==
  \A i \in {1, 2} :
    Extracted(i) => Stem(att[i].actual) \notin DOMAIN scratch

\* C13 (as claimed): when the aria2c binary is missing in the primary
\* attempt, the run ends in failure and neither the container probe nor the
\* container transfer is issued.
C13_MissingToolIsFatal ==
  att[1].exit = "notfound" =>
    /\ NoFallbackActivity
    /\ pc = "done" => ~result.ok

\* C14: every run reaches exactly one terminal outcome, (True, path) or
\* (False, None), after at most two transfer invocations, whatever the
\* probes, the transfer tool, validation and extraction do; the run is never
\* left at a position other than those of download_with_aria2 (no error
\* escapes it), and no outcome is set before the run returns.
C14_TerminatesWithOutcome ==
  /\ [](pc \in {"start", "resolve", "transfer", "process", "fallback", "done"})
  /\ [](Len(Launches) <= 2)
  /\ [](pc = "done" =>
          \/ result.ok /\ result.path # None
          \/ ~result.ok /\ result.path = None)
  /\ [](pc # "done" => result = [ok |-> FALSE, path |-> None])
  /\ <>(pc = "done")

\* a run that returned failure after a failed transfer and a corrupted
\* archive in the fallback
C14_Witness ==
  /\ pc = "done"
  /\ ~result.ok
  /\ att[1].exit = "fail"
  /\ att[2].exit = "ok" /\ att[2].proc = "fail"
  /\ Len(Launches) = 2

\* C15 (as claimed): when a file that fails validation is at the expected
\* name before the run, it and its control file are gone from the directory
\* when the primary transfer is about to be launched, whether the name is
\* the override or was resolved from the server.
C15_InvalidExistingRemoved ==
  (pc = "transfer" /\ attempt = 1 /\ filename \in DOMAIN fs0
     /\ ~validate_file(fs0, filename).valid) =>
    /\ filename \notin DOMAIN fs
    /\ Aria2File(filename) \notin DOMAIN fs

\* the file the primary attempt's transfer left at its destination
PrimaryFileThere ==
  /\ att[1].dest # None
  /\ att[1].dest \in DOMAIN fs
  /\ ~fs[att[1].dest].pre

\* C16 (as claimed): the destination of the fallback attempt differs from the
\* destination of the primary attempt, and the cleanup before the fallback
\* transfer does not remove the file the primary attempt downloaded.
C16_AttemptsNeverCollide ==
  /\ [](att[2].dest # None => att[2].dest # att[1].dest)
  /\ [][(pc = "fallback" /\ PrimaryFileThere) => att[1].dest \in DOMAIN fs']_vars

\* C17 (as claimed): after a transfer that exited successfully, the only file
\* taken as the download (validated, post-processed, reported) is the one at
\* the pinned destination; when none is there the attempt takes no file.
C17_OnlyPinnedFile ==
  \A i \in {1, 2} :
    att[i].exit = "ok" => att[i].actual \in {None, att[i].dest}

\* C19 (as claimed): when the run returns success, the returned path is not
\* None and a file is at that path; an archive that post-processing deleted
\* had at least one payload file moved into the output directory.
C19_SuccessPathExists ==
  /\ (pc = "done" /\ result.ok) =>
       /\ result.path # None
       /\ result.path \in DOMAIN fs
  /\ \A i \in {1, 2} :
       (att[i].proc = "ok" /\ IsZip(att[i].actual) /\ att[i].actual \notin DOMAIN fs) =>
         att[i].moved >= 1

\* the names the run owns: the name handed to an attempt, the attempt's
\* pinned destination, and the control files of both
OwnNames ==
  LET names == {prefer_filename, header_name, att[1].dest, att[2].dest} \ {None}
  IN  names \cup {Aria2File(p) : p \in names}

\* the scratch directories the run owns: those named after the stem of an
\* attempt's destination
OwnScratch == {Stem(att[i].dest) : i \in {j \in {1, 2} : att[j].dest # None}}

\* C20 (as claimed): every file and directory that was in the output
\* directory before the run and is not one of the run's own names or scratch
\* directories is still there, unchanged.
C20_OnlyOwnPathsTouched ==
  /\ \A p \in DOMAIN fs0 :
       p \notin OwnNames => p \in DOMAIN fs /\ fs[p] = fs0[p]
  /\ \A d \in DOMAIN scratch0 :
       d \notin OwnScratch => d \in DOMAIN scratch /\ scratch[d] = scratch0[d]

\* the files the suspended invocation wrote: the file its transfer left at
\* its pinned destination, which it is about to post-process, and the payload
\* files it moved out of its archives
OthersFiles ==
  (IF other.pc = "process" /\ other.path = other.file_path THEN {other.path} ELSE {})
    \cup {other.att[k].last : k \in {j \in {1, 2} : other.att[j].moved >= 1}}

\* C18 (as claimed): with two invocations interleaved on one output
\* directory, no step of the running invocation deletes or overwrites a file
\* the other invocation wrote.
C18_NoInterference ==
  [][\A p \in OthersFiles \cap DOMAIN fs : p \in DOMAIN fs' /\ fs'[p] = fs[p]]_vars

\* the lines attempt i of _download_with_url printed when the credential is
\* token: the URL and the name, the start of the transfer, and what came of it
PrintedBy(i, token) ==
  LET url == download_url(Format(i), token)
      name == att[i].dest
  IN  IF name = None THEN <<>>
      ELSE <<<<"Download URL: ">> \o debug_url(url, token),
             <<"Expected filename: ", name>>>>
           \o (IF att[i].exit = "none" THEN <<>>
               ELSE <<<<"Downloading ", name>>>>)
           \o (IF att[i].exit = "fail"
                 THEN <<<<"Download failed: ">> \o CalledProcessError(cmd(name, url))>>
               ELSE IF att[i].exit = "notfound"
                 THEN <<<<"aria2c not found. Please install aria2.">>>>
               ELSE IF att[i].exit = "ok"
                 THEN <<<<"Checking for downloaded files...">>>>
               ELSE <<>>)

\* what the two attempts of the run printed so far
Printed(token) == PrintedBy(1, token) \o PrintedBy(2, token)

\* C21 (as claimed): the printed lines do not depend on the credential: at
\* every point of every run, two runs that differ only in the token have
\* printed the same lines, the download URL and the message of a transfer
\* that exited non-zero included.
C21_TokenNeverPrinted ==
  \A t1, t2 \in Tokens : Printed(t1) = Printed(t2)

====
